---- MODULE Spec2Model ----
(***************************************************************************)
(* A model of oct2py's session object Oct2Py (src/oct2py/core.py): the     *)
(* engine life cycle (restart / exit / context manager), the call protocol *)
(* (_feval: writer.mat, the fixed dispatch statement, reader.mat), and the *)
(* operations built on it (feval, eval, push, pull, get_pointer).          *)
(*                                                                         *)
(* The Octave engine, the remote dispatcher _pyeval and the MAT codec are  *)
(* collaborators outside core.py; they are modelled from the design        *)
(* document and kept apart from the definitions that model core.py.        *)
(***************************************************************************)
EXTENDS Integers, Sequences, FiniteSets, TLC

(* ------------------------------ bounds -------------------------------- *)

\* engines one session may spawn in a run (the constructor's one included)
MaxEngines == 2
\* the close() calls counted per engine saturate here
CloseCap == 2

(* ------------------------------ values -------------------------------- *)

\* Host values are tagged: t is the Python type, v its text, id the identity
\* of a proxy object (0 for plain data).
Val(t, v) == [t |-> t, v |-> v, id |-> 0]
NoneVal == Val("None", "None")
IntV(s) == Val("int", s)
FloatV(s) == Val("float", s)
StrV(s) == Val("str", s)
ObjV(c) == Val("object", c)

PtrKinds == {"FunctionPtr", "VariablePtr", "ClassPtr", "InstancePtr"}
IsPtr(val) == val.t \in PtrKinds

\* the values a caller pushes
PushValues == {IntV("1"), StrV("")}

\* Python's str(value): the text of a string is the string itself, and
\* str(None) is the four letters "None".
Str(val) == val.v

\* names the remote side knows or does not know
VarNames == {"x", "y"}
ObjNames == {"o"}
WsNames == VarNames \cup ObjNames
ClassNames == {"K"}
Names == WsNames \cup {"f", "K", "nope"}

Undef == Val("undef", "")

(* --------------------- collaborators (not core.py) -------------------- *)

\* write_file: integer data is converted to floating point unless
\* convert_to_float is off; everything else is stored as it is.
EncodeValue(val, ctf) ==
  IF val.t = "int" /\ ctf THEN FloatV(val.v) ELSE val

NoError == [present |-> FALSE, message |-> ""]
ErrorRec(m) == [present |-> TRUE, message |-> m]
Response(err, res) == [error |-> err, result |-> res]
Blank == StrV("")

\* Octave's exist(name): the category code of a name, as printed.
ExistCode(name, w) ==
  CASE name \in WsNames -> IF w[name] = Undef THEN "0" ELSE "1"
    [] name = "f" -> "2"
    [] name = "K" -> "3"
    [] name = "g" -> "103"
    [] OTHER -> "0"

\* the engine's text for `exist("name")`, in pieces of text and white space
ExistResponse(name, w) == <<"ans", " ", "=", " ", ExistCode(name, w), "\n">>

\* the engine's text for `isobject(name)`
IsObjectResponse(name, w) ==
  IF \/ name \in ClassNames
     \/ name \in WsNames /\ w[name].t = "object"
  THEN <<"ans", " ", "=", " ", " ", "1", "\n">>
  ELSE <<"ans", " ", "=", " ", "0", "\n">>

\* what the remote side can make of a call that is neither assignin nor a
\* lookup: an error, no value, or a value left in `ans`
RemoteChoices == {"err", "blank", "val"}

ClassCmd(name) == "class(" \o name \o ");"
MakeObjCmd == "o = K();"
Commands ==
  VarNames \cup {ClassCmd(n) : n \in ObjNames} \cup {MakeObjCmd, "1+1", "1-1", "bad("}

ChoiceResponse(ch, val) ==
  CASE ch = "err" -> Response(ErrorRec("remote error"), Blank)
    [] ch = "blank" -> Response(NoError, Blank)
    [] OTHER -> Response(NoError, val)

\* _pyeval(writer.mat, reader.mat): load the request, run it against the
\* workspace w, save the outputs or the caught error.  Gives the new
\* workspace and the content of reader.mat.
Dispatch(req, w, ch) ==
  LET fn == req.func_name
      a == req.func_args
  IN CASE fn = "assignin" /\ Len(a) = 3 /\ a[2].v \in WsNames ->
            [ws |-> [w EXCEPT ![a[2].v] = a[3]], resp |-> Response(NoError, Blank)]
       [] fn = "evalin" /\ Len(a) = 2 /\ a[2].v \in WsNames ->
            [ws |-> w,
             resp |-> IF w[a[2].v] = Undef
                      THEN Response(ErrorRec("undefined"), Blank)
                      ELSE IF req.nout = 0
                           THEN Response(NoError, Blank)
                           ELSE Response(NoError, w[a[2].v])]
       [] fn = "evalin" /\ Len(a) = 2 /\ a[2].v = MakeObjCmd ->
            [ws |-> [w EXCEPT !["o"] = ObjV("K")], resp |-> Response(NoError, Blank)]
       [] fn = "evalin" /\ Len(a) = 2 /\ a[2].v \in {ClassCmd(n) : n \in ObjNames} ->
            [ws |-> w,
             resp |-> LET n == CHOOSE n \in ObjNames : a[2].v = ClassCmd(n)
                      IN IF w[n] = Undef
                         THEN Response(ErrorRec("undefined"), Blank)
                         ELSE Response(NoError, StrV(w[n].v))]
       [] fn = "evalin" /\ Len(a) = 2 /\ a[2].v = "1+1" ->
            [ws |-> w, resp |-> Response(NoError, FloatV("2"))]
       [] fn = "evalin" /\ Len(a) = 2 /\ a[2].v = "1-1" ->
            [ws |-> w, resp |-> Response(NoError, FloatV("0"))]
       [] fn = "evalin" ->
            [ws |-> w, resp |-> Response(ErrorRec("parse error"), Blank)]
       [] fn = "f" ->
            [ws |-> w, resp |-> ChoiceResponse(ch, FloatV("2"))]
       [] OTHER ->
            [ws |-> w, resp |-> Response(ErrorRec("undefined"), Blank)]

EmptyWs == [n \in WsNames |-> Undef]

\* the files before the first call
NoRequest == [func_name |-> "", func_args |-> <<>>, dname |-> "", nout |-> 0,
              store_as |-> "", replacement_indices |-> <<>>]
NoFile == Response(NoError, Val("nofile", ""))

\* str.strip() and str.split() on a text given in pieces
IsSpace(p) == p \in {" ", "\n"}
RECURSIVE LStrip(_)
LStrip(txt) == IF txt # <<>> /\ IsSpace(Head(txt)) THEN LStrip(Tail(txt)) ELSE txt
RECURSIVE RStrip(_)
RStrip(txt) ==
  IF txt # <<>> /\ IsSpace(txt[Len(txt)]) THEN RStrip(SubSeq(txt, 1, Len(txt) - 1)) ELSE txt
Strip(txt) == RStrip(LStrip(txt))
Split(txt) == SelectSeq(txt, LAMBDA p : ~IsSpace(p))

\* int(token): the number a token spells, -1 where int() raises
IntOf(tok) ==
  CASE tok = "0" -> 0 [] tok = "1" -> 1 [] tok = "2" -> 2 [] tok = "3" -> 3
    [] tok = "5" -> 5 [] tok = "103" -> 103 [] OTHER -> -1

(* ------------------------- the session's state ------------------------ *)

VARIABLES
  engine,            \* self._engine: 0 is None, else the engine's number
  engines,           \* each engine: "unspawned", "live", "dead" or "closed"
  closes,            \* close() calls each engine received from the session
  nextEngine,        \* the number the next spawned engine gets
  ws,                \* variables of the current engine's base workspace
  writer,            \* content of <temp_dir>/writer.mat
  reader,            \* content of <temp_dir>/reader.mat
  user_classes,      \* self._user_classes: class name -> ClassPtr id, 0 absent
  nextPtr,           \* the id the next ClassPtr gets
  convert_to_float,  \* self._convert_to_float
  preRestart,        \* ids of the ClassPtrs made before the latest restart
  pushed,            \* the value each name was last pushed with, as the caller gave it
  last,              \* the last operation and how it ended
  self_timeout,      \* self.timeout: 0 is None, else seconds
  attrs,             \* instance attributes bound by setattr: name -> value
  call,              \* the last operation's latest call, as given and as sent
  temp_dir,          \* self.temp_dir
  elsewhere,         \* writer.mat and reader.mat under the other directory
  files,             \* threaded calls: writer.mat and reader.mat of each temp dir
  thr                \* threaded calls: each thread's session, position and result

vars == <<engine, engines, closes, nextEngine, ws, writer, reader, user_classes,
          nextPtr, convert_to_float, preRestart, pushed, last, self_timeout, attrs, call,
          temp_dir, elsewhere, files, thr>>

EngineIds == 1 .. MaxEngines

\* the directory the session was made with
OwnDir == "A"

\* the attributes a caller asks the session for, and the mark of one that
\* is not bound
AttrNames == {"f", "f_", "K", "g", "x", "__doc"}
Unbound == Val("unbound", "")

\* what is known of an operation's latest call before any was made: the
\* arguments feval was given, the request _feval built, whether the dispatch
\* statement was evaluated and with which timeout, whether it wrote
\* reader.mat, and the text the latest introspection query got back
NoCall ==
  [args |-> <<>>, kwargs |-> <<>>, timeout |-> 0, req |-> NoRequest,
   sent |-> FALSE, etimeout |-> 0, wrote |-> FALSE, heard |-> <<>>]

\* The part of the state the handlers read and write, as one record; evals and
\* calls count the engine evaluations and dispatches of the running handler.
Host ==
  [engine |-> engine, engines |-> engines, closes |-> closes,
   nextEngine |-> nextEngine, ws |-> ws, writer |-> writer, reader |-> reader,
   user_classes |-> user_classes, nextPtr |-> nextPtr, evals |-> 0, calls |-> 0,
   timeout |-> self_timeout, attrs |-> attrs, call |-> NoCall,
   temp_dir |-> temp_dir, elsewhere |-> elsewhere]

\* how a handler ends: it returns val (and code, for the introspection
\* helpers) or raises exc with msg
Return(S, val) ==
  [s |-> S, status |-> "return", exc |-> "none", msg |-> "", val |-> val, code |-> 0]
ReturnCode(S, n) ==
  [s |-> S, status |-> "return", exc |-> "none", msg |-> "", val |-> NoneVal, code |-> n]
Raise(S, exc, msg) ==
  [s |-> S, status |-> "raise", exc |-> exc, msg |-> msg, val |-> NoneVal, code |-> 0]

(* ----------------------- the engine collaborator ----------------------- *)

\* engine.eval raises when the process is gone, or goes during this
\* evaluation (the orc.dieAt-th of the handler)
EvalFails(S, orc) ==
  S.engines[S.engine] # "live" \/ orc.dieAt = S.evals + 1
EvalDied(S) ==
  [S EXCEPT !.evals = @ + 1, !.engines[S.engine] = IF @ = "live" THEN "dead" ELSE @,
            !.ws = EmptyWs]
EvalOk(S) == [S EXCEPT !.evals = @ + 1]

\* engine.close(): the process is terminated
EngineClose(S) ==
  [S EXCEPT !.engines[S.engine] = "closed",
            !.closes[S.engine] = IF @ < CloseCap THEN @ + 1 ELSE @,
            !.ws = EmptyWs]

\* OctaveEngine(...): a fresh process with an empty workspace
EngineSpawn(S) ==
  [S EXCEPT !.engine = S.nextEngine, !.engines[S.nextEngine] = "live",
            !.nextEngine = @ + 1, !.ws = EmptyWs]

(* ------------------------------ life cycle ----------------------------- *)

\* exit, lines 114-115
exit_close(S) == IF S.engine # 0 THEN EngineClose(S) ELSE S

exit(S) == Return([exit_close(S) EXCEPT !.engine = 0], NoneVal)

\* restart without lines 363-364: the engine in use is left running
restart_close_skip(S) == S

\* restart, lines 363-364
restart_close(S) == IF S.engine # 0 THEN EngineClose(S) ELSE S

\* restart: close, spawn (the constructor can raise: orc.spawn), addpath
restart(S, orc) ==
  LET S1 == restart_close(S)
  IN IF ~orc.spawn THEN Raise(S1, "OSError", "engine did not start")
     ELSE LET S2 == EngineSpawn(S1)
          IN IF EvalFails(S2, orc) THEN Raise(EvalDied(S2), "EOF", "")
             ELSE Return(EvalOk(S2), NoneVal)

__enter__(S, orc) ==
  IF S.engine = 0 THEN restart(S, orc) ELSE Return(S, NoneVal)

__exit__(S) == exit(S)

(* ----------------------------- call protocol --------------------------- *)

\* a call target, as os.path.dirname / basename / splitext take it apart
Path(dir, stem, ext) == [dir |-> dir, stem |-> stem, ext |-> ext]
Plain(name) == Path("", name, "")

\* _feval with line 393 appending i: positions counted from 0
Replacements_fromZero(func_args) ==
  SelectSeq([i \in 1 .. Len(func_args) |-> i - 1],
            LAMBDA i : IsPtr(func_args[i + 1]))

\* _feval, lines 389-394: positions (1-based) of the proxy arguments
Replacements(func_args) ==
  SelectSeq([i \in 1 .. Len(func_args) |-> i], LAMBDA i : IsPtr(func_args[i]))
\* value._address: the opaque text that names a proxy's target remotely
Address(ptr) == "@" \o ptr.v
\* ... and the arguments with each proxy replaced by its address
ReplacedArgs(func_args) ==
  [i \in 1 .. Len(func_args) |->
     IF IsPtr(func_args[i]) THEN StrV(Address(func_args[i])) ELSE func_args[i]]

\* _feval, lines 396-399: the request dict
Req(func_name, func_args, dname, nout, store_as) ==
  [func_name |-> func_name, func_args |-> ReplacedArgs(func_args),
   dname |-> dname, nout |-> nout, store_as |-> store_as,
   replacement_indices |-> Replacements(func_args)]

\* _feval, lines 396-402: the request as write_file stores it in writer.mat
Request(func_name, func_args, dname, nout, store_as, ctf) ==
  LET req == Req(func_name, func_args, dname, nout, store_as)
  IN [req EXCEPT !.func_args =
        [i \in 1 .. Len(req.func_args) |-> EncodeValue(req.func_args[i], ctf)]]

\* _feval without lines 420-421: the result is returned as it was decoded
ResultValue_keep(result) == result

\* _feval, lines 419-422: a result whose text is empty becomes None
ResultValue(result) == IF Str(result) = "" THEN NoneVal ELSE result

\* _feval, lines 413-422, closing the session when the remote call failed
ReadResult_closing(S) ==
  LET resp == S.reader
  IN IF resp = NoFile THEN Raise(S, "IOError", "reader.mat not found")
     ELSE IF resp.error.present
     THEN Raise([EngineClose(S) EXCEPT !.engine = 0], "Oct2PyError", resp.error.message)
     ELSE Return(S, ResultValue(resp.result))

\* _feval, lines 413-422: read reader.mat (read_file raises when there is no
\* such file), raise on an error record
ReadResult(S) ==
  LET resp == S.reader
  IN IF resp = NoFile THEN Raise(S, "IOError", "reader.mat not found")
     ELSE IF resp.error.present
     THEN Raise(S, "Oct2PyError", resp.error.message)
     ELSE Return(S, ResultValue(resp.result))

\* _feval, lines 396-402: the request is written before the engine is touched
WriteRequest(S, req) == [S EXCEPT !.writer = req]

\* the dispatch statement evaluated by a live engine: _pyeval runs and saves
\* reader.mat, unless the statement ended without _pyeval saving anything
\* (orc.rem is "silent"), which leaves reader.mat as it was
Dispatched(S, orc) ==
  IF orc.rem = "silent" THEN S
  ELSE LET d == Dispatch(S.writer, S.ws, orc.rem)
       IN [S EXCEPT !.ws = d.ws, !.reader = d.resp, !.calls = @ + 1,
                    !.call.wrote = TRUE]

\* _feval, lines 404-411: engine.stream_handler = ...; engine.eval(_pyeval ...,
\* timeout=timeout).  An engine of None has no attribute to set; a dying
\* engine raises EOF and nothing catches it.
_feval(S, func_name, func_args, dname, nout, store_as, timeout, ctf, orc) ==
  LET req == Request(func_name, func_args, dname, nout, store_as, ctf)
      S1 == [WriteRequest(S, req) EXCEPT
               !.call.req = Req(func_name, func_args, dname, nout, store_as),
               !.call.sent = FALSE, !.call.wrote = FALSE]
  IN IF S1.engine = 0
     THEN Raise(S1, "AttributeError", "'NoneType' object has no attribute 'stream_handler'")
     ELSE LET S2 == [S1 EXCEPT !.call.sent = TRUE, !.call.etimeout = timeout]
          IN IF EvalFails(S2, orc)
             THEN Raise(EvalDied(S2), "EOF", "")
             ELSE ReadResult(Dispatched(EvalOk(S2), orc))

\* feval, lines 285-292: every key is deleted from kwargs, so what is left to
\* append as (key, value) items is what the loop did not delete
KeptKwargs(kwargs) == SelectSeq(kwargs, LAMBDA pair : FALSE)
RECURSIVE Flatten(_)
Flatten(pairs) ==
  IF pairs = <<>> THEN <<>> ELSE <<StrV(Head(pairs)[1]), Head(pairs)[2]>> \o Flatten(Tail(pairs))

\* feval, lines 291-292: the arguments with the remaining keyword arguments
\* appended
Folded(func_args, kwargs) == func_args \o Flatten(KeptKwargs(kwargs))

\* the call as feval was given it, noted before anything is done
Called(S, func_args, kwargs, timeout) ==
  [S EXCEPT !.call = [NoCall EXCEPT !.args = func_args, !.kwargs = kwargs,
                                    !.timeout = timeout, !.heard = S.call.heard]]

\* feval, lines 282-283: nout of None (-1 here) is get_nout() or 1
Nout(nout, orc) == IF nout = -1 THEN (IF orc.gn = 0 THEN 1 ELSE orc.gn) ELSE nout

\* feval, lines 293-297: a target with an extension other than .m is refused
BadExtension(path) == path.ext # "" /\ path.ext # ".m"

\* feval with the extension test of lines 296-297 made after the request is
\* written
feval_late(S, func_path, func_args, kwargs, nout, store_as, timeout, ctf, orc) ==
  LET folded == Folded(func_args, kwargs)
      S1 == Called(S, func_args, kwargs, timeout)
  IN IF BadExtension(func_path)
     THEN Raise(WriteRequest(S1, Request(func_path.stem, folded, func_path.dir,
                                         Nout(nout, orc), store_as, ctf)),
                "TypeError", "Need to give path to .m file")
     ELSE _feval(S1, func_path.stem, folded, func_path.dir, Nout(nout, orc), store_as,
                 timeout, ctf, orc)

\* feval, lines 282-299
feval(S, func_path, func_args, kwargs, nout, store_as, timeout, ctf, orc) ==
  LET folded == Folded(func_args, kwargs)
      S1 == Called(S, func_args, kwargs, timeout)
  IN IF BadExtension(func_path)
     THEN Raise(S1, "TypeError", "Need to give path to .m file")
     ELSE _feval(S1, func_path.stem, folded, func_path.dir, Nout(nout, orc), store_as,
                 timeout, ctf, orc)

\* Python's truth value of a result
Truthy(val) ==
  /\ val.t # "None"
  /\ ~(val.t = "str" /\ val.v = "")
  /\ ~(val.t \in {"int", "float"} /\ val.v = "0")

\* eval, lines 347-348: `if resp: ans = resp`
Kept(resp, ans) == IF Truthy(resp) THEN resp ELSE ans

\* self.temp_dir = dir: writer.mat and reader.mat are from now on the files
\* under dir, and those of the directory left are the ones elsewhere
ChangeDir(S, dir) ==
  IF dir = S.temp_dir THEN S
  ELSE [S EXCEPT !.temp_dir = dir,
                 !.writer = S.elsewhere.writer, !.reader = S.elsewhere.reader,
                 !.elsewhere = [writer |-> S.writer, reader |-> S.reader]]

\* eval, lines 343-350: each command is one evalin call with nout=0; a truthy
\* response replaces ans; a raising call ends the loop, and eval with it;
\* after the loop self.temp_dir gets its previous value back
RECURSIVE EvalLoop(_, _, _, _, _, _, _, _)
EvalLoop(S, cmds, i, ans, prev_temp_dir, timeout, ctf, orc) ==
  IF i > Len(cmds) THEN Return(ChangeDir(S, prev_temp_dir), ans)
  ELSE LET r == feval(S, Plain("evalin"), <<StrV("base"), StrV(cmds[i])>>, <<>>, 0,
                      "", timeout, ctf, orc)
       IN IF r.status = "raise" THEN r
          ELSE EvalLoop(r.s, cmds, i + 1, Kept(r.val, ans), prev_temp_dir, timeout, ctf,
                        orc)

\* eval, lines 335-350: self.temp_dir is the temp_dir keyword for the
\* commands, and stays what it is when the keyword is not given ("" here)
eval(S, cmds, kw_temp_dir, timeout, ctf, orc) ==
  EvalLoop(ChangeDir(S, IF kw_temp_dir = "" THEN S.temp_dir ELSE kw_temp_dir),
           cmds, 1, NoneVal, S.temp_dir, timeout, ctf, orc)

\* push, lines 148-154: one assignin call with nout=0 per (name, value)
RECURSIVE PushLoop(_, _, _, _, _, _)
PushLoop(S, pairs, i, timeout, ctf, orc) ==
  IF i > Len(pairs) THEN Return(S, NoneVal)
  ELSE LET r == feval(S, Plain("assignin"),
                      <<StrV("base"), StrV(pairs[i][1]), pairs[i][2]>>, <<>>, 0, "",
                      timeout, ctf, orc)
       IN IF r.status = "raise" THEN r ELSE PushLoop(r.s, pairs, i + 1, timeout, ctf, orc)

push(S, pairs, timeout, ctf, orc) == PushLoop(S, pairs, 1, timeout, ctf, orc)

(* ------------------------ introspection and pull ----------------------- *)

\* what the engine answers a query with: the text Octave prints for it
\* (orc.txt is "ok"), an error message, or an empty line
EngineText(orc, text) ==
  CASE orc.txt = "error" -> <<"error:", " ", "undefined", "\n">>
    [] orc.txt = "blank" -> <<"\n">>
    [] OTHER -> text

\* the response of a query, noted as the session received it
Heard(S, resp) == [S EXCEPT !.evals = @ + 1, !.call.heard = resp]

\* _exist, line 477: int(resp.split()[-1]) of the stripped response; -2 where
\* there is no last token
ParseExist(resp) ==
  LET toks == Split(Strip(resp))
  IN IF toks = <<>> THEN -2 ELSE IntOf(toks[Len(toks)])

\* _exist, lines 475-480
_exist(S, name, orc) ==
  IF S.engine = 0
  THEN Raise(S, "AttributeError", "'NoneType' object has no attribute 'eval'")
  ELSE IF EvalFails(S, orc) THEN Raise(EvalDied(S), "EOF", "")
  ELSE LET resp == EngineText(orc, ExistResponse(name, S.ws))
           code == ParseExist(resp)
           S1 == Heard(S, resp)
       IN IF code = -2 THEN Raise(S1, "IndexError", "list index out of range")
          ELSE IF code = -1 THEN Raise(S1, "ValueError", "invalid literal for int()")
          ELSE IF code = 0 THEN Raise(S1, "ValueError", "does not exist")
          ELSE ReturnCode(S1, code)

\* _isobject, line 488: the stripped response is compared with 'ans =  1'
IsObjectText(resp) == Strip(resp) = <<"ans", " ", "=", " ", " ", "1">>

\* _isobject, lines 484-488; code 1 is True, 0 is False
_isobject(S, name, exist, orc) ==
  IF exist \in {2, 5} THEN ReturnCode(S, 0)
  ELSE IF S.engine = 0
  THEN Raise(S, "AttributeError", "'NoneType' object has no attribute 'eval'")
  ELSE IF EvalFails(S, orc) THEN Raise(EvalDied(S), "EOF", "")
  ELSE LET resp == EngineText(orc, IsObjectResponse(name, S.ws))
       IN ReturnCode(Heard(S, resp), IF IsObjectText(resp) THEN 1 ELSE 0)

ClassPtr(name, id) == [t |-> "ClassPtr", v |-> name, id |-> id]
FunctionPtr(name) == [t |-> "FunctionPtr", v |-> name, id |-> 0]
VariablePtr(name) == [t |-> "VariablePtr", v |-> name, id |-> 0]
InstancePtr(name, cls) == [t |-> "InstancePtr", v |-> name, id |-> cls.id]

\* _get_user_class, line 494: the new class is stored; the method then ends
\* without a return statement, so the caller gets None
StoreNewClass(S, name) ==
  Return([S EXCEPT !.user_classes[name] = S.nextPtr, !.nextPtr = @ + 1], NoneVal)

\* _get_user_class, lines 492-494
_get_user_class(S, name) ==
  IF name \in ClassNames /\ S.user_classes[name] # 0
  THEN Return(S, ClassPtr(name, S.user_classes[name]))
  ELSE IF name \in ClassNames THEN StoreNewClass(S, name)
  ELSE Raise(S, "Oct2PyError", "no such class")

\* get_pointer, lines 207-210: the instance branch
InstanceBranch(S, name, ctf, orc) ==
  LET c == eval(S, <<ClassCmd(name)>>, "", 0, ctf, orc)
  IN IF c.status = "raise" THEN c
     ELSE LET k == _get_user_class(c.s, c.val.v)
          IN IF k.status = "raise" THEN k
             ELSE IF k.val = NoneVal
                  THEN Raise(k.s, "AttributeError",
                             "'NoneType' object has no attribute 'from_name'")
                  ELSE Return(k.s, InstancePtr(name, k.val))

\* get_pointer, lines 204-221
get_pointer(S, name, ctf, orc) ==
  LET e == _exist(S, name, orc)
  IN IF e.status = "raise" THEN e
     ELSE LET o == _isobject(e.s, name, e.code, orc)
          IN IF o.status = "raise" THEN o
             ELSE IF e.code = 1 /\ o.code = 1 THEN InstanceBranch(o.s, name, ctf, orc)
             ELSE IF e.code = 1 THEN Return(o.s, VariablePtr(name))
             ELSE IF o.code = 1 THEN _get_user_class(o.s, name)
             ELSE IF e.code \in {2, 3, 5} THEN Return(o.s, FunctionPtr(name))
             ELSE Raise(o.s, "ValueError", "Unknown type for object")

\* pull answering a plain variable from the response already in reader.mat
\* when there is one, instead of asking again
pull_stale(S, name, timeout, ctf, orc) ==
  LET e == _exist(S, name, orc)
  IN IF e.status = "raise" THEN e
     ELSE LET o == _isobject(e.s, name, e.code, orc)
          IN IF o.status = "raise" THEN o
             ELSE IF e.code = 1 /\ o.code = 0
                  THEN IF o.s.reader # NoFile /\ ~o.s.reader.error.present
                       THEN Return(o.s, ResultValue(o.s.reader.result))
                       ELSE feval(o.s, Plain("evalin"), <<StrV("base"), StrV(name)>>,
                                  <<>>, -1, "", timeout, ctf, orc)
                  ELSE get_pointer(o.s, name, ctf, orc)

\* pull, lines 190-200, for one name
pull(S, name, timeout, ctf, orc) ==
  LET e == _exist(S, name, orc)
  IN IF e.status = "raise" THEN e
     ELSE LET o == _isobject(e.s, name, e.code, orc)
          IN IF o.status = "raise" THEN o
             ELSE IF e.code = 1 /\ o.code = 0
                  THEN feval(o.s, Plain("evalin"), <<StrV("base"), StrV(name)>>, <<>>,
                             -1, "", timeout, ctf, orc)
                  ELSE get_pointer(o.s, name, ctf, orc)

(* --------------------------- attribute access -------------------------- *)

\* __getattr__, lines 502 and 506-509: attr.startswith('__'), and the name
\* an attribute stands for (a trailing "_" is dropped)
Dunder(attr) == attr \in {"__doc"}
AttrTarget(attr) == IF attr = "f_" THEN "f" ELSE attr

\* __getattr__, lines 518-526: the class or the function proxy, then setattr
BindProxy(S, attr, name, isobject) ==
  LET k == IF isobject = 1 THEN _get_user_class(S, name)
           ELSE Return(S, FunctionPtr(name))
  IN IF k.status = "raise" THEN k
     ELSE Return([k.s EXCEPT !.attrs[attr] = k.val], k.val)

\* __getattr__, lines 496-527; object has no __getattr__ to delegate to
__getattr__(S, attr, orc) ==
  IF Dunder(attr)
  THEN Raise(S, "AttributeError", "'super' object has no attribute '__getattr__'")
  ELSE LET name == AttrTarget(attr)
           e == _exist(S, name, orc)
       IN IF e.status = "raise" THEN e
          ELSE IF e.code \notin {2, 3, 5, 103}
               THEN Raise(e.s, "Oct2PyError", "not a valid callable")
               ELSE LET o == _isobject(e.s, name, e.code, orc)
                    IN IF o.status = "raise" THEN o
                       ELSE BindProxy(o.s, attr, name, o.code)

\* Python's attribute lookup: __getattr__ runs only when the instance has no
\* such attribute
getattr(S, attr, orc) ==
  IF S.attrs[attr] # Unbound THEN Return(S, S.attrs[attr])
  ELSE __getattr__(S, attr, orc)

(* ---------------------------- threaded calls --------------------------- *)

\* what the threaded calls leave alone
hostVars ==
  <<engine, engines, closes, nextEngine, ws, writer, reader, user_classes, nextPtr,
    convert_to_float, preRestart, pushed, last, self_timeout, attrs, call, temp_dir,
    elsewhere>>

\* callers on threads of their own, and the sessions they call on
Threads == {"t1", "t2", "t3"}
Sessions == {"A", "B"}

\* __init__ with temp_dir given as one and the same directory
TempDir_shared(sess) == "A"

\* __init__, line 87: a session made without temp_dir works in a directory
\* of its own, made by tempfile.mkdtemp()
TempDir(sess) == sess

\* the call a thread makes: feval("deal", <its own name>)
ThreadCall(t) == Request("deal", <<StrV(t)>>, "", 1, "", TRUE)

\* deal(x) gives x back
Deal(req) == Response(NoError, req.func_args[1])

\* _feval, lines 384-402: the request is written under the session's temp_dir
ThreadWrite(t) ==
  /\ thr[t].pc = "start"
  /\ files' = [files EXCEPT ![TempDir(thr[t].sess)].writer = ThreadCall(t)]
  /\ thr' = [thr EXCEPT ![t].pc = "written"]
  /\ UNCHANGED hostVars

\* _feval, lines 404-411: the session's engine runs _pyeval on the two files
ThreadEval(t) ==
  /\ thr[t].pc = "written"
  /\ files' = [files EXCEPT ![TempDir(thr[t].sess)].reader =
                               Deal(files[TempDir(thr[t].sess)].writer)]
  /\ thr' = [thr EXCEPT ![t].pc = "evaluated"]
  /\ UNCHANGED hostVars

\* _feval, lines 413-422: the response is read from the session's temp_dir
ThreadRead(t) ==
  /\ thr[t].pc = "evaluated"
  /\ thr' = [thr EXCEPT ![t].pc = "done",
                        ![t].got = ResultValue(files[TempDir(thr[t].sess)].reader.result)]
  /\ UNCHANGED <<files, hostVars>>

(* ------------------------------- actions ------------------------------- *)

CallOps == {"feval", "eval", "push", "pull"}

\* an oracle: where the engine dies (0: it does not), what the remote side
\* makes of a dispatch, whether a spawn succeeds, what get_nout() infers;
\* the engine answers queries with the text Octave prints unless Saying
\* puts another one
Oracle(dieAt, rem, spawn, gn) ==
  [dieAt |-> dieAt, rem |-> rem, spawn |-> spawn, gn |-> gn, txt |-> "ok"]
Saying(orc, txt) == [orc EXCEPT !.txt = txt]
Quiet == Oracle(0, "val", TRUE, 1)
Dies(ds) == {Oracle(d, "val", TRUE, 1) : d \in ds}

\* the state after a handler ended as r says
Apply(r, op, arg, nout) ==
  /\ engine' = r.s.engine
  /\ engines' = r.s.engines
  /\ closes' = r.s.closes
  /\ nextEngine' = r.s.nextEngine
  /\ ws' = r.s.ws
  /\ writer' = r.s.writer
  /\ reader' = r.s.reader
  /\ user_classes' = r.s.user_classes
  /\ nextPtr' = r.s.nextPtr
  /\ last' = [op |-> op, arg |-> arg, nout |-> nout, closed |-> (engine = 0),
              status |-> r.status, exc |-> r.exc, msg |-> r.msg, val |-> r.val]
  /\ attrs' = r.s.attrs
  /\ call' = r.s.call
  /\ temp_dir' = r.s.temp_dir
  /\ elsewhere' = r.s.elsewhere
  /\ UNCHANGED <<convert_to_float, self_timeout, files, thr>>

\* __init__, lines 86-89: the session before the constructor's restart()
NewHost ==
  [engine |-> 0, engines |-> [e \in EngineIds |-> "unspawned"],
   closes |-> [e \in EngineIds |-> 0], nextEngine |-> 1, ws |-> EmptyWs,
   writer |-> NoRequest, reader |-> NoFile,
   user_classes |-> [c \in ClassNames |-> 0], nextPtr |-> 1, evals |-> 0, calls |-> 0,
   timeout |-> 0, attrs |-> [a \in AttrNames |-> Unbound], call |-> NoCall,
   temp_dir |-> OwnDir, elsewhere |-> [writer |-> NoRequest, reader |-> NoFile]]

\* the state after a construction that succeeded, convert_to_float among ctfs
\* and the timeout argument (line 81) among timeouts
Constructed(ctfs, timeouts) ==
  LET r == restart(NewHost, Quiet)
  IN /\ engine = r.s.engine
     /\ engines = r.s.engines
     /\ closes = r.s.closes
     /\ nextEngine = r.s.nextEngine
     /\ ws = r.s.ws
     /\ writer = r.s.writer
     /\ reader = r.s.reader
     /\ user_classes = r.s.user_classes
     /\ nextPtr = r.s.nextPtr
     /\ convert_to_float \in ctfs
     /\ preRestart = {}
     /\ pushed = [n \in VarNames |-> Undef]
     /\ self_timeout \in timeouts
     /\ attrs = r.s.attrs
     /\ call = r.s.call
     /\ temp_dir = r.s.temp_dir
     /\ elsewhere = r.s.elsewhere
     /\ last = [op |-> "__init__", arg |-> "", nout |-> 0, closed |-> TRUE,
                status |-> r.status, exc |-> r.exc, msg |-> r.msg, val |-> r.val]

\* threads about to call, each on the session one of ons gives it, and the
\* sessions' temp dirs before any call
Threaded(ons) ==
  /\ files = [d \in Sessions |-> [writer |-> NoRequest, reader |-> NoFile]]
  /\ thr \in {[t \in Threads |-> [sess |-> on[t], pc |-> "start", got |-> Unbound]] :
                on \in ons}

\* the ClassPtrs that exist when a restart has gone through
Restarted(r) == IF r.status = "return" THEN 1 .. (nextPtr - 1) ELSE preRestart

Exit ==
  /\ Apply(exit(Host), "exit", "", 0)
  /\ UNCHANGED <<preRestart, pushed>>

ExitContext ==
  /\ Apply(__exit__(Host), "__exit__", "", 0)
  /\ UNCHANGED <<preRestart, pushed>>

RestartWith(orcs) ==
  /\ nextEngine <= MaxEngines
  /\ \E orc \in orcs :
       LET r == restart(Host, orc)
       IN /\ Apply(r, "restart", "", 0)
          /\ preRestart' = Restarted(r)
          /\ UNCHANGED pushed

EnterWith(orcs) ==
  /\ engine # 0 \/ nextEngine <= MaxEngines
  /\ \E orc \in orcs :
       LET r == __enter__(Host, orc)
       IN /\ Apply(r, "__enter__", "", 0)
          /\ preRestart' = IF engine = 0 THEN Restarted(r) ELSE preRestart
          /\ UNCHANGED pushed

\* calls is a set of <<target, arguments, keyword arguments, nout, timeout>>
FevalWith(calls, orcs) ==
  \E c \in calls, orc \in orcs :
    /\ Apply(feval(Host, c[1], c[2], c[3], c[4], "", c[5], convert_to_float, orc),
             "feval", c[1].stem, Nout(c[4], orc))
    /\ UNCHANGED <<preRestart, pushed>>

EvalWith(cmdlists, orcs) ==
  \E cmds \in cmdlists, orc \in orcs :
    /\ Apply(eval(Host, cmds, "", 0, convert_to_float, orc), "eval", cmds[Len(cmds)], 0)
    /\ UNCHANGED <<preRestart, pushed>>

\* eval with the temp_dir keyword among dirs ("": not given)
EvalInDirWith(cmdlists, dirs, orcs) ==
  \E cmds \in cmdlists, dir \in dirs, orc \in orcs :
    /\ Apply(eval(Host, cmds, dir, 0, convert_to_float, orc), "eval", cmds[Len(cmds)], 0)
    /\ UNCHANGED <<preRestart, pushed>>

\* the values last pushed, once the first n pairs of a push were dispatched
RECURSIVE PushedAfter(_, _, _)
PushedAfter(p, pairs, n) ==
  IF n = 0 THEN p
  ELSE [PushedAfter(p, pairs, n - 1) EXCEPT ![pairs[n][1]] = pairs[n][2]]

\* lists is a set of sequences of <<name, value>>
PushWith(lists, orcs) ==
  \E pairs \in lists, orc \in orcs :
    LET r == push(Host, pairs, 0, convert_to_float, orc)
    IN /\ Apply(r, "push", pairs[Len(pairs)][1], 0)
       /\ pushed' = PushedAfter(pushed, pairs, r.s.calls)
       /\ UNCHANGED preRestart

PullWith(names, orcs) ==
  \E name \in names, orc \in orcs :
    /\ Apply(pull(Host, name, 0, convert_to_float, orc), "pull", name, 1)
    /\ UNCHANGED <<preRestart, pushed>>

GetPointerWith(names, orcs) ==
  \E name \in names, orc \in orcs :
    /\ Apply(get_pointer(Host, name, convert_to_float, orc), "get_pointer", name, 0)
    /\ UNCHANGED <<preRestart, pushed>>

GetAttrWith(names, orcs) ==
  \E attr \in names, orc \in orcs :
    /\ Apply(getattr(Host, attr, orc), "getattr", attr, 0)
    /\ UNCHANGED <<preRestart, pushed>>

ExistWith(names, orcs) ==
  \E name \in names, orc \in orcs :
    /\ Apply(_exist(Host, name, orc), "_exist", name, 0)
    /\ UNCHANGED <<preRestart, pushed>>

\* queries is a set of <<name, exist code>>
IsObjectWith(queries, orcs) ==
  \E q \in queries, orc \in orcs :
    /\ Apply(_isobject(Host, q[1], q[2], orc), "_isobject", q[1], 0)
    /\ UNCHANGED <<preRestart, pushed>>

GetUserClass ==
  \E name \in ClassNames :
    /\ Apply(_get_user_class(Host, name), "_get_user_class", name, 0)
    /\ UNCHANGED <<preRestart, pushed>>

(* ---------- Spec: the engine life cycle and the call protocol ---------- *)

\* what can happen to a spawn: it fails, the new engine dies during addpath,
\* or the engine comes up
SpawnOutcomes ==
  {Oracle(0, "val", FALSE, 1), Oracle(1, "val", TRUE, 1), Oracle(0, "val", TRUE, 1)}

\* what can happen to a dispatch: the engine dies, or the remote side ends in
\* one of RemoteChoices
CallOutcomes == {Oracle(1, "val", TRUE, 0)} \cup {Oracle(0, ch, TRUE, 0) : ch \in RemoteChoices}

FevalCalls ==
  {<<Plain("f"), <<>>, <<>>, -1, 0>>,
   <<Plain("f"), <<IntV("1")>>, <<>>, 0, 0>>,
   <<Path("dir", "f", ".m"), <<>>, << <<"LineWidth", IntV("1")>> >>, 1, 0>>,
   <<Plain("nope"), <<>>, <<>>, 0, 0>>,
   <<Path("", "data", ".txt"), <<>>, <<>>, -1, 0>>}

\* no call is made from a second thread
SingleThread == Threaded({[t \in Threads |-> "A"]})

Init == Constructed({TRUE}, {0}) /\ SingleThread

Restart == RestartWith(SpawnOutcomes)
Enter == EnterWith(SpawnOutcomes)
Feval == FevalWith(FevalCalls, CallOutcomes)
Eval == EvalWith({<<"1+1">>, <<"bad(">>, <<"1+1", "x">>}, Dies(0 .. 2))
Push == PushWith({<< <<"x", IntV("1")>> >>}, Dies(0 .. 1))
Pull == PullWith({"x", "f"}, Dies(0 .. 3))

Next ==
  \/ Exit
  \/ ExitContext
  \/ Restart
  \/ Enter
  \/ Feval
  \/ Eval
  \/ Push
  \/ Pull

Spec == Init /\ [][Next]_vars

(* --------------- SpecData: values pushed and pulled ------------------- *)

InitData == Constructed(BOOLEAN, {0}) /\ SingleThread

PushLists ==
  {<< <<n, v>> >> : n \in VarNames, v \in PushValues}
    \cup {<< <<"x", v>>, <<"y", IntV("1")>> >> : v \in PushValues}

DataRestart == RestartWith({Quiet})
DataPush == PushWith(PushLists, Dies(0 .. 2))
DataPull == PullWith(VarNames, Dies(0 .. 3))
DataEval == EvalWith({<<"x">>, <<"1+1", "y">>, <<"1+1", "1-1">>}, {Quiet})

NextData ==
  \/ Exit
  \/ DataRestart
  \/ DataPush
  \/ DataPull
  \/ DataEval

SpecData == InitData /\ [][NextData]_vars

(* ------------- SpecProxy: names resolved to proxies -------------------- *)

ProxyNames == {"f", "K", "o", "x", "nope"}

ProxyRestart == RestartWith({Quiet})
ProxyPull == PullWith(ProxyNames, Dies({0, 1, 3}))
ProxyGetPointer == GetPointerWith(ProxyNames, Dies(0 .. 3))
ProxyEval == EvalWith({<<MakeObjCmd>>, <<ClassCmd("o")>>}, {Quiet})
ProxyPush == PushWith({<< <<"x", IntV("1")>> >>}, {Quiet})

NextProxy ==
  \/ Exit
  \/ ProxyRestart
  \/ ProxyPull
  \/ ProxyGetPointer
  \/ GetUserClass
  \/ ProxyEval
  \/ ProxyPush

SpecProxy == Init /\ [][NextProxy]_vars

(* ------- SpecStale: dispatches that may leave reader.mat alone -------- *)

\* what can happen to a dispatch whose engine stays up: one of RemoteChoices,
\* or the statement ends without reader.mat being saved
StaleOutcomes == {Oracle(0, ch, TRUE, 1) : ch \in RemoteChoices \cup {"silent"}}

StaleCalls ==
  {<<Plain("f"), <<>>, <<>>, -1, 0>>,
   <<Plain("f"), <<IntV("1")>>, <<>>, 0, 0>>,
   <<Plain("nope"), <<>>, <<>>, 0, 0>>}

NextStale ==
  \/ Exit
  \/ RestartWith({Quiet})
  \/ FevalWith(StaleCalls, StaleOutcomes)
  \/ EvalWith({<<"1+1">>, <<"x">>}, StaleOutcomes)
  \/ PushWith({<< <<"x", IntV("1")>> >>}, StaleOutcomes)
  \/ PullWith({"x"}, StaleOutcomes)

SpecStale == Init /\ [][NextStale]_vars

(* ------------- SpecAttr: attributes of the session -------------------- *)

NextAttr ==
  \/ Exit
  \/ RestartWith({Quiet})
  \/ GetAttrWith(AttrNames, Dies(0 .. 2))
  \/ PushWith({<< <<"x", IntV("1")>> >>}, {Quiet})
  \/ GetUserClass

SpecAttr == Init /\ [][NextAttr]_vars

(* ------------- SpecTimeout: calls with and without a timeout ---------- *)

\* a session made with no timeout or with one of 7 seconds
InitTimeout == Constructed({TRUE}, {0, 7}) /\ SingleThread

\* calls that give no timeout, and calls that give 3 seconds
TimedCalls ==
  {<<Plain("f"), <<>>, <<>>, n, t>> : n \in {-1, 0}, t \in {0, 3}}
    \cup {<<Path("", "data", ".txt"), <<>>, <<>>, -1, 3>>}

NextTimeout ==
  \/ Exit
  \/ RestartWith({Quiet})
  \/ FevalWith(TimedCalls, CallOutcomes)
  \/ EvalWith({<<"1+1">>, <<"1+1", "bad(">>}, Dies(0 .. 2))
  \/ PullWith({"x", "f"}, Dies(0 .. 3))

SpecTimeout == InitTimeout /\ [][NextTimeout]_vars

(* ------------- SpecThreads: calls made from several threads ----------- *)

InitThreads == Constructed({TRUE}, {0}) /\ Threaded([Threads -> Sessions])

NextThreads ==
  \/ \E t \in Threads : ThreadWrite(t)
  \/ \E t \in Threads : ThreadEval(t)
  \/ \E t \in Threads : ThreadRead(t)

SpecThreads == InitThreads /\ [][NextThreads]_vars

(* ------------- SpecArgs: calls with proxies among the arguments ------- *)

ArgLists ==
  {<<>>,
   <<IntV("1")>>,
   <<FunctionPtr("f")>>,
   <<IntV("1"), VariablePtr("x")>>,
   <<FunctionPtr("f"), IntV("1"), VariablePtr("x")>>,
   <<StrV(""), ClassPtr("K", 1), InstancePtr("o", ClassPtr("K", 1))>>}

NextArgs ==
  \/ Exit
  \/ RestartWith({Quiet})
  \/ FevalWith({<<Plain("f"), a, <<>>, 1, 0>> : a \in ArgLists}, CallOutcomes)

SpecArgs == InitData /\ [][NextArgs]_vars

(* ------------- SpecIntro: the introspection queries ------------------- *)

\* the engine answers as Octave does, with an error message or with an
\* empty line, or dies
IntroOutcomes == {Saying(Quiet, txt) : txt \in {"ok", "error", "blank"}} \cup Dies({1})

NextIntro ==
  \/ Exit
  \/ RestartWith({Quiet})
  \/ ExistWith(Names, IntroOutcomes)
  \/ IsObjectWith({<<"x", 1>>, <<"o", 1>>, <<"f", 2>>, <<"K", 3>>}, IntroOutcomes)
  \/ PushWith({<< <<"x", IntV("1")>> >>}, {Quiet})
  \/ EvalWith({<<MakeObjCmd>>}, {Quiet})

SpecIntro == Init /\ [][NextIntro]_vars

(* ------------- SpecTemp: eval with the temp_dir keyword --------------- *)

NextTemp ==
  \/ RestartWith({Quiet})
  \/ EvalInDirWith({<<"1+1">>, <<"bad(">>, <<"1+1", "bad(">>}, {"", "tmp"}, Dies(0 .. 1))
  \/ FevalWith({<<Plain("f"), <<>>, <<>>, 1, 0>>}, CallOutcomes)

SpecTemp == Init /\ [][NextTemp]_vars

(* ------------- SpecAgree: the two ways to resolve a name -------------- *)

NextAgree ==
  \/ RestartWith({Quiet})
  \/ GetPointerWith({"f", "K", "g", "x", "nope"}, Dies(0 .. 1))
  \/ GetAttrWith({"f", "K", "g", "x"}, {Quiet})
  \/ GetUserClass
  \/ PushWith({<< <<"x", IntV("1")>> >>}, {Quiet})

SpecAgree == Init /\ [][NextAgree]_vars

(* ----------------------------- properties ------------------------------ *)

\* C1: after exit() has closed the session (self._engine is None), every
\* feval, eval, push or pull that gets as far as the engine fails with
\* Oct2PyError ("session closed").
C1_ClosedCallFailsCleanly ==
  (last.op \in CallOps /\ last.closed /\ last.exc # "TypeError")
    => (last.status = "raise" /\ last.exc = "Oct2PyError")

\* C2: the session owns at most one live engine, and every engine it spawned
\* other than the one it holds has been closed.
C2_OneLiveEngine ==
  /\ Cardinality({e \in EngineIds : engines[e] = "live"}) <= 1
  /\ \A e \in EngineIds : (engines[e] # "unspawned" /\ e # engine) => engines[e] = "closed"

\* C2, witness: a restart replaced the first engine, which is closed, by a
\* second one, which is live.
C2_Witness ==
  /\ last.op = "restart"
  /\ engine = 2
  /\ engines[1] = "closed"
  /\ engines[2] = "live"

\* C3: closing is idempotent: an engine the session closed is no longer
\* referenced by it, and no engine receives close() twice from the session.
C3_CloseIdempotent ==
  /\ engine # 0 => engines[engine] # "closed"
  /\ \A e \in EngineIds : closes[e] <= 1

\* C4: after restart() the class registry holds no ClassPtr that was created
\* before the restart.
C4_RestartResetsClasses ==
  \A c \in ClassNames : user_classes[c] \notin preRestart

\* C5: a feval with nout=0 that returns, returns None.
C5_Nout0ReturnsNone ==
  (last.op = "feval" /\ last.nout = 0 /\ last.status = "return") => last.val = NoneVal

\* C5, amended: a feval with nout=0 returns the result reader.mat carries (the
\* remote `ans` when there is one), and None only when that result's text is
\* empty; it raises Oct2PyError exactly when reader.mat carries an error record.
C5_Nout0ReturnsPayload ==
  (last.op = "feval" /\ last.nout = 0 /\ last.exc \in {"none", "Oct2PyError"}) =>
    /\ last.status = "return" <=> ~reader.error.present
    /\ last.status = "return" =>
         last.val = (IF reader.result.v = "" THEN NoneVal ELSE reader.result)

\* C5, witness: a feval with nout=0 returned the value the remote side left
\* in `ans`.
C5_Witness ==
  /\ last.op = "feval"
  /\ last.nout = 0
  /\ last.status = "return"
  /\ last.val = FloatV("2")

\* two values are equal under the codec's round trip: same text, and the same
\* type up to the conversion of integers to floating point
SameValue(a, b) ==
  /\ a.v = b.v
  /\ a.t = b.t \/ {a.t, b.t} \subseteq {"int", "float"}

\* C6: a pull of a plain variable that returns, returns the value most
\* recently pushed under that name.
C6_PullReturnsPushed ==
  (last.op = "pull" /\ last.arg \in VarNames /\ last.status = "return")
    => SameValue(last.val, pushed[last.arg])

\* C6, amended: a pull of a plain variable that returns, returns the value
\* most recently pushed under that name, except that a value whose text is
\* empty (the empty string) comes back as None.
C6_PullReturnsPushedOrNone ==
  (last.op = "pull" /\ last.arg \in VarNames /\ last.status = "return") =>
    IF pushed[last.arg] = StrV("")
    THEN last.val = NoneVal
    ELSE SameValue(last.val, pushed[last.arg])

\* C6, witness: x was pushed as the integer 1 after y, pulled, and came back
\* as 1 while y holds another value.
C6_Witness ==
  /\ last.op = "pull"
  /\ last.arg = "x"
  /\ last.status = "return"
  /\ pushed["x"] = IntV("1")
  /\ pushed["y"] = StrV("")
  /\ last.val.v = "1"

\* C7: a pull of a name that is a function or a class returns a FunctionPtr
\* or a ClassPtr, never a decoded value or None.
C7_PullReturnsProxy ==
  (last.op = "pull" /\ last.status = "return") =>
    /\ last.arg = "f" => last.val.t = "FunctionPtr"
    /\ last.arg \in ClassNames => last.val.t = "ClassPtr"

\* a feval step that failed early: the target has an extension other than .m,
\* or names a function the remote side does not have
EarlyTypeError == last'.op = "feval" /\ last'.exc = "TypeError"
EarlyNoSuchFunction == last'.op = "feval" /\ last'.arg = "nope" /\ last'.exc = "Oct2PyError"

\* C8: a feval that fails early leaves writer.mat as it was.
C8_EarlyFailureWritesNothing ==
  [][(EarlyTypeError \/ EarlyNoSuchFunction) => writer' = writer]_vars

\* C8, amended: a feval refused for its extension leaves writer.mat (and
\* reader.mat, the engine and the workspace) as it was; a feval of a function
\* the remote side does not have fails only after writer.mat was overwritten
\* with its request.
C8_OnlyExtensionFailureWritesNothing ==
  [][/\ EarlyTypeError => UNCHANGED <<writer, reader, ws, engine, engines>>
     /\ EarlyNoSuchFunction => (writer'.func_name = "nope" /\ reader'.error.present)]_vars

\* C8, witness: a feval was refused for its extension while writer.mat held
\* the request of an earlier call.
C8_Witness ==
  /\ last.op = "feval"
  /\ last.exc = "TypeError"
  /\ writer # NoRequest

\* C9: when reader.mat carries an error record, feval raises Oct2PyError with
\* the record's message, the session keeps its engine, which is live, and a
\* following call can return.
C9_RemoteErrorKeepsSession ==
  /\ [](last.op = "feval" /\ last.exc = "Oct2PyError" =>
          /\ reader.error.present
          /\ last.msg = reader.error.message
          /\ engine # 0
          /\ engines[engine] = "live"
          /\ ENABLED (Feval /\ last'.status = "return"))
  /\ [][(last'.op = "feval" /\ last'.exc = "Oct2PyError") =>
          (engine' = engine /\ engines' = engines /\ closes' = closes)]_vars

\* C9, witness: a feval raised Oct2PyError with the remote message.
C9_Witness ==
  /\ last.op = "feval"
  /\ last.exc = "Oct2PyError"
  /\ last.msg = "remote error"
  /\ engine = 1

\* C10: when the engine reaches end of stream during a call, the session is
\* forced Closed and the call fails with Oct2PyError: no call ends in a bare
\* EOF, and the session never holds a dead engine.
C10_EofForcesClosed ==
  last.op \in CallOps =>
    /\ last.exc # "EOF"
    /\ engine # 0 => engines[engine] # "dead"

\* C11: no data of an earlier call leaks into a later one: whenever a call
\* evaluated its dispatch statement and ended with a value or with a remote
\* error, that outcome was read from a reader.mat which this call's own
\* dispatch wrote, also when an earlier call left a result or an error
\* record there.
C11_OutcomeFromOwnPayload ==
  (last.op \in CallOps /\ call.sent /\ last.exc \in {"none", "Oct2PyError"})
    => call.wrote

\* C12: feval folds keyword arguments into the request: the argument list of
\* the request a feval call builds is its positional arguments followed by
\* k1, v1, ..., kn, vn for its keyword arguments k1=v1 .. kn=vn, in order.
C12_KwargsFolded ==
  (last.op = "feval" /\ last.exc # "TypeError")
    => call.req.func_args = ReplacedArgs(call.args \o Flatten(call.kwargs))

\* C13: get_pointer(name) on an open session whose engine stays up maps each
\* kind of name to exactly one outcome: a name that does not exist is an
\* error; a plain variable gives a VariablePtr; an object instance gives an
\* InstancePtr built from the cached ClassPtr of its class; a function gives
\* a FunctionPtr; a class name gives a ClassPtr.  It never returns None.
C13_GetPointerOutcome ==
  (last.op = "get_pointer" /\ ~last.closed /\ last.exc # "EOF") =>
    /\ last.status = "return" => last.val # NoneVal
    /\ CASE last.arg \in WsNames /\ ws[last.arg] = Undef -> last.status = "raise"
         [] last.arg \in WsNames /\ ws[last.arg].t = "object" ->
              /\ last.val.t = "InstancePtr"
              /\ last.val.id # 0
              /\ last.val.id = user_classes[ws[last.arg].v]
         [] last.arg \in WsNames -> last.val = VariablePtr(last.arg)
         [] last.arg = "f" -> last.val = FunctionPtr("f")
         [] last.arg \in ClassNames ->
              last.val = ClassPtr(last.arg, user_classes[last.arg])
         [] OTHER -> last.status = "raise"

\* C14: attribute access on the session is lazy and memoized: an access to
\* an unbound attribute that returns gives a proxy and binds that proxy; an
\* access to a bound attribute returns the bound value, asks the engine
\* nothing and binds nothing; an access that fails binds nothing.
C14_LazyMemoized ==
  [][last'.op = "getattr" =>
       IF attrs[last'.arg] # Unbound
       THEN /\ last'.status = "return"
            /\ last'.val = attrs[last'.arg]
            /\ call'.heard = <<>>
            /\ UNCHANGED <<attrs, engines>>
       ELSE IF last'.status = "return"
            THEN /\ IsPtr(last'.val)
                 /\ attrs' = [attrs EXCEPT ![last'.arg] = last'.val]
            ELSE UNCHANGED attrs]_vars

\* C15: eval returns the result of the last command whose result is not
\* None: when the last command of an eval that returns left a result other
\* than None (the number 0 included), eval returns that result.
C15_LastNonNullKept ==
  (last.op = "eval" /\ last.status = "return" /\ ResultValue(reader.result) # NoneVal)
    => last.val = ResultValue(reader.result)

\* C16: the timeout a call hands to the engine with its dispatch statement is
\* the timeout the call was given, and the session's default (self.timeout)
\* when the call was given none.
C16_TimeoutOrDefault ==
  (last.op \in CallOps /\ call.sent) =>
    call.etimeout = (IF call.timeout # 0 THEN call.timeout ELSE self_timeout)

\* C17: calls on independent sessions, interleaved in any order by their
\* threads, do not interfere: a thread that is the only caller of its session
\* reads the response to its own request, whatever threads on other sessions
\* do; two threads calling on one session can end with one of them reading
\* the other's payload (the witness).
C17_SessionsDoNotInterfere ==
  \A t \in Threads :
    (/\ thr[t].pc = "done"
     /\ \A u \in Threads \ {t} : thr[u].sess # thr[t].sess)
      => thr[t].got = StrV(t)

\* C17, witness: t1 alone on its session read its own response, while t2 and
\* t3 share the other session and t2 read the response to t3's request.
C17_Witness ==
  /\ thr["t1"].sess # thr["t2"].sess
  /\ thr["t2"].sess = thr["t3"].sess
  /\ thr["t1"].pc = "done"
  /\ thr["t1"].got = StrV("t1")
  /\ thr["t2"].pc = "done"
  /\ thr["t2"].got = StrV("t3")

\* C18: class proxies are cached per session by class name:
\* _get_user_class(name) returns the ClassPtr the registry holds for name on
\* every call, the first included, and once the registry holds a ClassPtr
\* for a name it holds that same one from then on.
C18_ClassPtrCached ==
  /\ [](last.op = "_get_user_class" =>
          /\ user_classes[last.arg] # 0
          /\ last.val = ClassPtr(last.arg, user_classes[last.arg]))
  /\ [][\A c \in ClassNames : user_classes[c] # 0 => user_classes'[c] = user_classes[c]]_vars

\* C19: in the request _feval builds from an argument list,
\* replacement_indices holds exactly the 1-based positions of the proxy
\* arguments, in ascending order; at each of those positions the argument is
\* the proxy's address string, and every other argument is the caller's
\* argument, unchanged, at its position.
C19_ProxyArgsReplaced ==
  call.req # NoRequest =>
    LET given == Folded(call.args, call.kwargs)
        idx == call.req.replacement_indices
    IN /\ Len(call.req.func_args) = Len(given)
       /\ {idx[j] : j \in 1 .. Len(idx)} = {i \in 1 .. Len(given) : IsPtr(given[i])}
       /\ \A j \in 1 .. Len(idx) - 1 : idx[j] < idx[j + 1]
       /\ \A i \in 1 .. Len(given) :
            call.req.func_args[i] =
              (IF IsPtr(given[i]) THEN StrV(Address(given[i])) ELSE given[i])

\* C19, witness: a call with a FunctionPtr, the integer 1 and a VariablePtr
\* returned; its request marks positions 1 and 3 and carries the two
\* addresses around the integer.
C19_Witness ==
  /\ last.op = "feval"
  /\ last.status = "return"
  /\ call.args = <<FunctionPtr("f"), IntV("1"), VariablePtr("x")>>
  /\ call.req.replacement_indices = <<1, 3>>
  /\ call.req.func_args = <<StrV("@f"), IntV("1"), StrV("@x")>>

\* a response of the expected form: `ans = <number>`
WellFormed(resp) ==
  LET toks == Split(resp)
  IN Len(toks) = 3 /\ toks[1] = "ans" /\ toks[2] = "=" /\ IntOf(toks[3]) # -1

\* C20: an introspection response that does not have the expected form fails
\* loudly: when _exist or _isobject got such a response from the engine, it
\* raises; it never answers with a default.
C20_ParseMismatchFailsLoudly ==
  (last.op \in {"_exist", "_isobject"} /\ call.heard # <<>> /\ ~WellFormed(call.heard))
    => last.status = "raise"

\* C21: eval leaves the session's temp_dir unchanged: after every eval, with
\* or without the temp_dir keyword, whether it returned or one of its
\* commands raised, self.temp_dir is what it was before the call.
C21_EvalKeepsTempDir ==
  [][last'.op = "eval" => temp_dir' = temp_dir]_vars

\* C22: the two resolution paths agree: whenever __getattr__ on a name would
\* give a proxy, a get_pointer on that name whose engine stays up returns a
\* proxy of the same variant, for every existence code, 103 included.
C22_PathsAgree ==
  [][(last'.op = "get_pointer" /\ last'.exc # "EOF") =>
       LET a == __getattr__(Host, last'.arg, Quiet)
       IN (a.status = "return" /\ IsPtr(a.val))
            => (last'.status = "return" /\ last'.val.t = a.val.t)]_vars
====
